---- MODULE Spec2Model ----
(***************************************************************************)
(* A model of go-automapper (src/mapper.go): Mapper.Map and the recursive  *)
(* traversal mapValues / mapField / findSourceField / mapSlice, run as a   *)
(* stack machine, one step per scope operation, field resolution, leaf     *)
(* write or panic propagation step.                                        *)
(*                                                                         *)
(* Representation.                                                         *)
(*  - A field name, a tag value and a scope path are sequences of          *)
(*    one-character strings, so that strings.ToLower, strings.Replace,     *)
(*    strings.Split and strings.Join are computed character by character.  *)
(*  - A reflect.Type is a type reference: <<"named", id>> for an entry of  *)
(*    TypeTable (a basic type or a struct type), <<"ptr", r>> for *r and   *)
(*    <<"slice", r>> for []r.                                              *)
(*  - A value: an integer for the int and uint families, an integer        *)
(*    count of float64 units for the float family, a string, a boolean, a  *)
(*    tuple of field values for a struct, <<>> (nil) or <<v>> for a        *)
(*    pointer, a tuple of elements for a slice (a nil slice and an empty   *)
(*    slice both are <<>>).                                                *)
(*  - The universe holds exported fields only, apart from those of         *)
(*    time.Time, and pairs no string source with a slice destination (for  *)
(*    reflect, a string has a Len and its Index yields bytes).             *)
(*  - Values stay below 2^31; a type wider than 16 bits never wraps.       *)
(***************************************************************************)
EXTENDS Integers, Sequences, FiniteSets, TLC

\* Longest source sequence of the generated inputs.
MaxLen == 2

\* mapper.go:152, the scope length above which mapValues panics.
ScopeLimit == 200

\* The number of nested invocations the stack of a call holds: what stands for
\* the maximum stack size of the Go runtime.
StackLimit == 24

----------------------------------------------------------------------------
(* Strings as character sequences *)

\* strings.ToLower on one character (ASCII letters).
ToLowerChar(ch) ==
  CASE ch = "A" -> "a" [] ch = "B" -> "b" [] ch = "C" -> "c" [] ch = "D" -> "d"
    [] ch = "E" -> "e" [] ch = "F" -> "f" [] ch = "G" -> "g" [] ch = "H" -> "h"
    [] ch = "I" -> "i" [] ch = "J" -> "j" [] ch = "K" -> "k" [] ch = "L" -> "l"
    [] ch = "M" -> "m" [] ch = "N" -> "n" [] ch = "O" -> "o" [] ch = "P" -> "p"
    [] ch = "Q" -> "q" [] ch = "R" -> "r" [] ch = "S" -> "s" [] ch = "T" -> "t"
    [] ch = "U" -> "u" [] ch = "V" -> "v" [] ch = "W" -> "w" [] ch = "X" -> "x"
    [] ch = "Y" -> "y" [] ch = "Z" -> "z" [] OTHER -> ch

\* strings.ToLower
ToLower(s) == [k \in 1..Len(s) |-> ToLowerChar(s[k])]

\* strings.Replace(f, "_", "", -1)
RemoveUnderscores(s) == SelectSeq(s, LAMBDA ch : ch # "_")

RECURSIVE FirstComma(_, _)
\* Index of the first "," of s at or after k, Len(s)+1 when there is none.
FirstComma(s, k) ==
  IF k > Len(s) THEN k
  ELSE IF s[k] = "," THEN k ELSE FirstComma(s, k + 1)

\* strings.Split(f, ",")[0]
SplitFirst(s) == SubSeq(s, 1, FirstComma(s, 1) - 1)

RECURSIVE Join(_, _)
\* strings.Join(parts, sep)
Join(parts, sep) ==
  IF Len(parts) = 0 THEN <<>>
  ELSE IF Len(parts) = 1 THEN parts[1]
  ELSE parts[1] \o sep \o Join(Tail(parts), sep)

\* Mapper.fuzzy
fuzzy(m, f) ==
  IF m.FuzzyMatchFieldNames THEN ToLower(RemoveUnderscores(f))
  ELSE IF m.IgnoreCase THEN ToLower(f)
  ELSE f

\* Mapper.includes
includes(m, strs, str) ==
  \E k \in 1..Len(strs) : fuzzy(m, strs[k]) = fuzzy(m, str)

\* The name of the innermost field of the scope alone, without its path.
scopedFieldNameLeaf(r) == IF r.scope = <<>> THEN <<>> ELSE r.scope[Len(r.scope)]

\* Result.scopedFieldName
scopedFieldName(r) == Join(r.scope, <<".">>)

----------------------------------------------------------------------------
(* Field names and tag values of the type universe *)

nFoo == <<"F", "o", "o">>
nBar == <<"B", "a", "r">>
nBaz == <<"B", "a", "z">>
nQux == <<"Q", "u", "x">>
nA == <<"A">>
nB == <<"B">>
nC == <<"C">>
nD == <<"D">>
nE == <<"E">>
nF == <<"F">>
nP == <<"P">>
nID == <<"I", "D">>
nName == <<"N", "a", "m", "e">>
nExtra == <<"E", "x", "t", "r", "a">>
nTag == <<"T", "a", "g">>
nChildren == <<"C", "h", "i", "l", "d", "r", "e", "n">>
nParents == <<"P", "a", "r", "e", "n", "t", "s">>
nCreatedAt == <<"C", "r", "e", "a", "t", "e", "d", "A", "t">>
nUpdatedAt == <<"U", "p", "d", "a", "t", "e", "d", "A", "t">>
nDeletedAt == <<"D", "e", "l", "e", "t", "e", "d", "A", "t">>
nModel == <<"M", "o", "d", "e", "l">>
nSourceTypeA == <<"S", "o", "u", "r", "c", "e", "T", "y", "p", "e", "A">>
nDestTypeA == <<"D", "e", "s", "t", "T", "y", "p", "e", "A">>
nFoo_Bar == <<"F", "o", "o", "_", "B", "a", "r">>
nFooBar == <<"F", "o", "o", "B", "a", "r">>
nCount == <<"C", "o", "u", "n", "t">>
nInner == <<"I", "n", "n", "e", "r">>
nMid == <<"M", "i", "d">>
n_wall == <<"w", "a", "l", "l">>
n_ext == <<"e", "x", "t">>
n_loc == <<"l", "o", "c">>
n_name == <<"n", "a", "m", "e">>
nKids == <<"K", "i", "d", "s">>
nX == <<"X">>
tagFoo == <<"f", "o", "o", ",", "o", "m", "i", "t", "e", "m", "p", "t", "y">>

----------------------------------------------------------------------------
(* reflect.Type *)

N(id) == <<"named", id>>
PtrTo(r) == <<"ptr", r>>
SliceOf(r) == <<"slice", r>>

\* reflect.StructField: Name, Type, Anonymous, Tag (a list of key/value pairs).
Fld(name, type) == [Name |-> name, Type |-> type, Anonymous |-> FALSE, Tag |-> <<>>]
Emb(name, type) == [Name |-> name, Type |-> type, Anonymous |-> TRUE, Tag |-> <<>>]
Tagged(name, type, key, val) ==
  [Name |-> name, Type |-> type, Anonymous |-> FALSE,
   Tag |-> <<[key |-> key, val |-> val]>>]

BasicKinds ==
  {"int", "int8", "int16", "int32", "int64",
   "uint", "uint8", "uint16", "uint32", "uint64",
   "float32", "float64", "string", "bool"}

Struct(name, pkg, fields) ==
  [kind |-> "struct", name |-> name, pkg |-> pkg, fields |-> fields]

\* The declared types of the universe: the types of the repository's tests
\* (src/unnamed/part_000) and the shapes the traversal distinguishes.
TypeTable(id) ==
  CASE id \in BasicKinds ->
         [kind |-> id, name |-> id, pkg |-> "", fields |-> <<>>]
    \* type MyInt int: Kind int, Name MyInt
    [] id = "MyInt" ->
         [kind |-> "int", name |-> "MyInt", pkg |-> "mapper", fields |-> <<>>]
    [] id = "SourceTypeA" ->
         Struct("SourceTypeA", "mapper", <<Fld(nFoo, N("int")), Fld(nBar, N("string"))>>)
    [] id = "DestTypeA" ->
         Struct("DestTypeA", "mapper", <<Fld(nFoo, N("int")), Fld(nBar, N("string"))>>)
    [] id = "DestTypeB" ->
         Struct("DestTypeB", "mapper", <<Fld(nFoo, N("int")), Fld(nQux, N("string"))>>)
    [] id = "SourceParent" ->
         Struct("SourceParent", "mapper", <<Fld(nChildren, SliceOf(N("SourceTypeA")))>>)
    [] id = "DestParent" ->
         Struct("DestParent", "mapper", <<Fld(nChildren, SliceOf(N("DestTypeA")))>>)
    [] id = "DestParentB" ->
         Struct("DestParentB", "mapper", <<Fld(nChildren, SliceOf(N("DestTypeB")))>>)
    [] id = "SrcGrand" ->
         Struct("", "", <<Fld(nParents, SliceOf(N("SourceParent")))>>)
    [] id = "DstGrand" ->
         Struct("", "", <<Fld(nParents, SliceOf(N("DestParentB")))>>)
    [] id = "SrcNums" ->
         Struct("", "", <<Fld(nA, N("int16")), Fld(nB, N("uint8")), Fld(nC, N("uint16")),
                          Fld(nD, N("float64")), Fld(nE, N("float32")), Fld(nF, N("int8"))>>)
    [] id = "DstNums" ->
         Struct("", "", <<Fld(nA, N("int8")), Fld(nB, N("uint16")), Fld(nC, N("int8")),
                          Fld(nD, N("float32")), Fld(nE, N("float64")), Fld(nF, N("int"))>>)
    [] id = "SrcLoose" ->
         Struct("", "", <<Fld(nFoo, N("string")), Fld(nBaz, N("int"))>>)
    [] id = "DstLoose" ->
         Struct("", "", <<Fld(nFoo, N("string")), Fld(nBar, N("int"))>>)
    [] id = "DstLooseRev" ->
         Struct("", "", <<Fld(nBar, N("int")), Fld(nFoo, N("string")), Fld(nBaz, N("string"))>>)
    [] id = "SrcUnnamed" ->
         Struct("", "", <<Fld(nBaz, N("string")), Emb(nSourceTypeA, N("SourceTypeA"))>>)
    [] id = "DstUnnamed" ->
         Struct("", "", <<Fld(nBaz, N("string")), Emb(nDestTypeA, N("DestTypeA"))>>)
    [] id = "SrcPtr" ->
         Struct("", "", <<Fld(nFoo, PtrTo(N("SourceTypeA")))>>)
    [] id = "DstPtr" ->
         Struct("", "", <<Fld(nFoo, PtrTo(N("DestTypeA")))>>)
    [] id = "DstNonPtr" ->
         Struct("", "", <<Fld(nFoo, N("DestTypeA"))>>)
    [] id = "BazOnly" ->
         Struct("", "", <<Fld(nBaz, N("string"))>>)
    [] id = "DstNonPtrBaz" ->
         Struct("", "", <<Fld(nFoo, N("BazOnly"))>>)
    [] id = "FooString" ->
         Struct("", "", <<Fld(nFoo, N("string"))>>)
    [] id = "FooInt" ->
         Struct("", "", <<Fld(nFoo, N("int"))>>)
    [] id = "BarInt" ->
         Struct("", "", <<Fld(nBar, N("int"))>>)
    [] id = "FooSlice" ->
         Struct("", "", <<Fld(nFoo, SliceOf(N("int")))>>)
    [] id = "SrcKids" ->
         Struct("", "", <<Fld(nChildren, SliceOf(N("FooString")))>>)
    [] id = "DstKids" ->
         Struct("", "", <<Fld(nChildren, SliceOf(N("BarInt")))>>)
    [] id = "SrcStrs" ->
         Struct("", "", <<Fld(nChildren, SliceOf(N("string")))>>)
    [] id = "DstInts" ->
         Struct("", "", <<Fld(nChildren, SliceOf(N("int")))>>)
    [] id = "SrcPtrStrs" ->
         Struct("", "", <<Fld(nChildren, SliceOf(PtrTo(N("string"))))>>)
    [] id = "DstPtrInts" ->
         Struct("", "", <<Fld(nChildren, SliceOf(PtrTo(N("int"))))>>)
    [] id = "PtrStr" ->
         Struct("", "", <<Fld(nP, PtrTo(N("string")))>>)
    [] id = "Location" ->
         Struct("Location", "time", <<Fld(n_name, N("string"))>>)
    [] id = "Time" ->
         Struct("Time", "time", <<Fld(n_wall, N("uint64")), Fld(n_ext, N("int64")),
                                  Fld(n_loc, PtrTo(N("Location")))>>)
    [] id = "Model" ->
         Struct("Model", "mapper", <<Fld(nID, N("uint")), Fld(nCreatedAt, N("Time")),
                                     Fld(nUpdatedAt, N("Time")),
                                     Fld(nDeletedAt, PtrTo(N("Time")))>>)
    [] id = "structWithModel" ->
         Struct("structWithModel", "mapper", <<Emb(nModel, N("Model")), Fld(nName, N("string"))>>)
    [] id = "dto" ->
         Struct("dto", "mapper", <<Fld(nID, N("uint")), Fld(nCreatedAt, N("Time")),
                                   Fld(nUpdatedAt, N("Time")),
                                   Fld(nDeletedAt, PtrTo(N("Time"))), Fld(nName, N("string"))>>)
    [] id = "dtoExtra" ->
         Struct("dtoExtra", "mapper", <<Fld(nID, N("uint")), Fld(nExtra, N("string")),
                                        Fld(nName, N("string"))>>)
    \* two levels of embedding: Deep embeds Mid, Mid embeds Inner
    [] id = "Inner" ->
         Struct("Inner", "mapper", <<Fld(nID, N("uint"))>>)
    [] id = "Mid" ->
         Struct("Mid", "mapper", <<Emb(nInner, N("Inner")), Fld(nTag, N("string"))>>)
    [] id = "Deep" ->
         Struct("Deep", "mapper", <<Emb(nMid, N("Mid")), Emb(nSourceTypeA, N("SourceTypeA")),
                                    Fld(nName, N("string"))>>)
    [] id = "SrcSnake" ->
         Struct("", "", <<Fld(nFoo_Bar, N("int")), Fld(nBar, N("string"))>>)
    [] id = "DstCamel" ->
         Struct("", "", <<Fld(nFooBar, N("int")), Fld(nBar, N("string"))>>)
    [] id = "DstTagged" ->
         Struct("", "", <<Tagged(nCount, N("int"), "json", tagFoo)>>)
    [] id = "MyIntBox" ->
         Struct("", "", <<Fld(nX, N("MyInt"))>>)
    [] id = "IntBox" ->
         Struct("", "", <<Fld(nX, N("int"))>>)
    \* record types that refer to themselves through a slice field
    [] id = "SrcNode" ->
         Struct("SrcNode", "mapper", <<Fld(nKids, SliceOf(N("SrcNode")))>>)
    [] id = "DstNode" ->
         Struct("DstNode", "mapper", <<Fld(nKids, SliceOf(N("DstNode")))>>)
    [] id = "QuxBox" ->
         Struct("", "", <<Fld(nQux, N("int"))>>)
    [] id = "IntPair" ->
         Struct("", "", <<Fld(nFoo, N("int")), Fld(nBar, N("int"))>>)

\* reflect.Type.Kind
Kind(r) == IF r[1] = "named" THEN TypeTable(r[2]).kind ELSE r[1]
\* reflect.Type.Name: empty for an unnamed type
TypeName(r) == IF r[1] = "named" THEN TypeTable(r[2]).name ELSE ""
\* reflect.Type.PkgPath
PkgPath(r) == IF r[1] = "named" THEN TypeTable(r[2]).pkg ELSE ""
\* reflect.Type.Elem of a pointer or slice type
Elem(r) == r[2]
\* reflect.Type.NumField and Field(i) (1-based here)
NumField(r) == Len(TypeTable(r[2]).fields)
Field(r, i) == TypeTable(r[2]).fields[i]

\* reflect.StructTag.Lookup: the index of the first pair with the key, 0 if none
TagLookup(tag, key) ==
  IF \E k \in 1..Len(tag) : tag[k].key = key
  THEN CHOOSE k \in 1..Len(tag) :
         tag[k].key = key /\ \A j \in 1..(k - 1) : tag[j].key # key
  ELSE 0

RECURSIVE Zero(_)
\* reflect.Zero / reflect.New(t).Elem(): the zero value of a type
Zero(r) ==
  CASE Kind(r) \in {"ptr", "slice"} -> <<>>
    [] Kind(r) = "struct" -> [k \in 1..NumField(r) |-> Zero(Field(r, k).Type)]
    [] Kind(r) = "string" -> ""
    [] Kind(r) = "bool" -> FALSE
    [] OTHER -> 0

----------------------------------------------------------------------------
(* Scalar coercion: isIntType, isUintType, isFloatType and reflect's setters *)

\* isIntType: decided by the type's name (mapper.go:347-361)
isIntType(r) == TypeName(r) \in {"int", "int8", "int16", "int32", "int64"}
\* isUintType (mapper.go:364-378)
isUintType(r) == TypeName(r) \in {"uint", "uint8", "uint16", "uint32", "uint64"}
\* isFloatType (mapper.go:381-389)
isFloatType(r) == TypeName(r) \in {"float32", "float64"}

\* Two's-complement truncation of x to a signed integer of the given width.
WrapSigned(x, half) == ((x + half) % (2 * half)) - half

\* reflect.Value.SetInt: the int64 is truncated to the destination's kind.
SetInt(r, x) ==
  CASE Kind(r) = "int8" -> WrapSigned(x, 128)
    [] Kind(r) = "int16" -> WrapSigned(x, 32768)
    [] OTHER -> x

\* reflect.Value.SetUint: the uint64 is truncated to the destination's kind.
SetUint(r, x) ==
  CASE Kind(r) = "uint8" -> x % 256
    [] Kind(r) = "uint16" -> x % 65536
    [] OTHER -> x

\* float32(x) of a float64 x: float32 holds every fourth float64 unit of this
\* model; round to nearest, ties to the even multiple.
RoundToFloat32(x) ==
  LET q == x \div 4
      rem == x % 4
  IN  IF rem < 2 THEN 4 * q
      ELSE IF rem > 2 THEN 4 * (q + 1)
      ELSE IF q % 2 = 0 THEN 4 * q ELSE 4 * (q + 1)

\* reflect.Value.SetFloat
SetFloat(r, x) == IF Kind(r) = "float32" THEN RoundToFloat32(x) ELSE x

NoValue == [ok |-> FALSE, v |-> 0]
Value(x) == [ok |-> TRUE, v |-> x]

\* The uint-to-int rule of mapValues (mapper.go:176-179).
uintToInt(st, sv, dt) ==
  IF isIntType(dt) /\ isUintType(st) THEN Value(SetInt(dt, sv)) ELSE NoValue

\* The identical-type copy of mapValues (mapper.go:188-192).
copyIdentical(st, sv, dt) ==
  IF dt = st THEN Value(sv) ELSE NoValue

\* The leaf rules of mapValues, in the code's order (mapper.go:160-192): the
\* value written to the destination, or no value when no rule applies.
coerce(st, sv, dt) ==
  IF isIntType(st) /\ isIntType(dt) THEN Value(SetInt(dt, sv))
  ELSE IF isUintType(st) /\ isUintType(dt) THEN Value(SetUint(dt, sv))
  ELSE IF uintToInt(st, sv, dt).ok THEN uintToInt(st, sv, dt)
  ELSE IF isFloatType(st) /\ isFloatType(dt) THEN Value(SetFloat(dt, sv))
  ELSE copyIdentical(st, sv, dt)

\* valueIsNil
valueIsNil(st, sv) == Kind(st) = "ptr" /\ sv = <<>>

\* The time.Time special case of mapValues (mapper.go:131-140).
isTime(r) == Kind(r) = "struct" /\ PkgPath(r) = "time" /\ TypeName(r) = "Time"

----------------------------------------------------------------------------
(* Custom mappers: two representative CustomFieldMapper functions *)

\* "stringToInt" handles a string source with an int destination and writes 1
\* for a non-empty string, 0 for an empty one; "decline" never handles.
CustomHandles(id, st, dt) ==
  id = "stringToInt" /\ Kind(st) = "string" /\ Kind(dt) = "int"
CustomOut(id, sv) == IF sv = "" THEN 0 ELSE 1

\* The loop over m.CustomMappers (mapper.go:108-113): the index of the first
\* mapper that handles the pair, 0 when none does.
FirstHandler(m, st, dt) ==
  IF \E k \in 1..Len(m.CustomMappers) : CustomHandles(m.CustomMappers[k], st, dt)
  THEN CHOOSE k \in 1..Len(m.CustomMappers) :
         /\ CustomHandles(m.CustomMappers[k], st, dt)
         /\ \A j \in 1..(k - 1) : ~CustomHandles(m.CustomMappers[j], st, dt)
  ELSE 0

----------------------------------------------------------------------------
(* Result and error values *)

\* &Result{}
EmptyResult == [MissingSourceFields |-> <<>>, Errors |-> <<>>, scope |-> <<>>]

ErrorValue(kind, src, dst, field, cause, fields) ==
  [kind |-> kind, src |-> src, dst |-> dst, field |-> field, cause |-> cause,
   fields |-> fields]

NoType == <<"none", "">>
\* "Currently not supported (source %s -> dest %s), ..." (mapper.go:200)
Unsupported(st, dt) == ErrorValue("unsupported", st, dt, <<>>, <<>>, <<>>)
\* "Error mapping field: %s. DestType: %v. SourceType: %v. Error: %v" (mapper.go:214)
FieldError(name, dt, st, r) == ErrorValue("field", st, dt, name, <<r>>, <<>>)
\* "Missing fields from source struct: " + strings.Join(missing, ", ") (mapper.go:56)
MissingError(missing) ==
  ErrorValue("missing", NoType, NoType, <<>>, <<>>, Join(missing, <<",", " ">>))
\* a panic raised by the reflect package (NumField or Len of the wrong kind)
ReflectPanic(what, st) == ErrorValue(what, st, NoType, <<>>, <<>>, <<>>)
\* the panics of Map and of the scope checks (mapper.go:50, 150, 153)
PlainPanic(what) == ErrorValue(what, NoType, NoType, <<>>, <<>>, <<>>)

\* Result.addError, with the element order reversed
addErrorFirst(r, e) == [r EXCEPT !.Errors = <<e>> \o @]

\* Result.addError
addError(r, e) == [r EXCEPT !.Errors = Append(@, e)]

----------------------------------------------------------------------------
(* Field resolution *)

\* The name a field goes by: the part of its tag before the first comma when
\* the tag key is configured and present, the declared name otherwise
\* (mapper.go:278-283 and 295-300).
TagOrName(tagKey, f) ==
  IF Len(tagKey) > 0 /\ TagLookup(f.Tag, tagKey) # 0
  THEN SplitFirst(f.Tag[TagLookup(f.Tag, tagKey)].val)
  ELSE f.Name

\* formattedDestFieldName reading FieldNameMaps the other way round: the entry
\* whose key matches the destination field gives the source name.
formattedDestFieldNameByKey(m, f) ==
  LET fieldName == fuzzy(m, TagOrName(m.DestTag, f))
      hits == {e \in m.FieldNameMaps : fuzzy(m, e.k) = fieldName}
  IN  IF hits = {} THEN {fieldName} ELSE {fuzzy(m, e.v) : e \in hits}

\* Mapper.formattedDestFieldName. FieldNameMaps is a Go map, ranged over in an
\* unspecified order: every entry whose value matches may be the one returned,
\* so this is the set of names the call can return.
formattedDestFieldName(m, f) ==
  LET fieldName == fuzzy(m, TagOrName(m.DestTag, f))
      hits == {e \in m.FieldNameMaps : fuzzy(m, e.v) = fieldName}
  IN  IF hits = {} THEN {fieldName} ELSE {fuzzy(m, e.k) : e \in hits}

\* Mapper.formattedSourceFieldName
formattedSourceFieldName(m, f) == fuzzy(m, TagOrName(m.SourceTag, f))

\* The first loop of findSourceField (mapper.go:236-241): the index of the first
\* source field whose formatted name is destFieldName, 0 when there is none.
directMatch(m, st, destFieldName) ==
  LET hit(k) == formattedSourceFieldName(m, Field(st, k)) = destFieldName
  IN  IF \E k \in 1..NumField(st) : hit(k)
      THEN CHOOSE k \in 1..NumField(st) : hit(k) /\ \A j \in 1..(k - 1) : ~hit(j)
      ELSE 0

\* What findSourceField returns: the source field (ok and sp, the path of field
\* indexes from the source struct to the field; or the invalid reflect.Value{}),
\* and the caller's Result after the call. sn is the path of source field names
\* to the field found, why is "found", "ignored", "missing", or "panic" when
\* the call panics in source.NumField().
Found(res, sp, sn) == [ok |-> TRUE, res |-> res, sn |-> sn, sp |-> sp, why |-> "found"]
NotFound(res, why) == [ok |-> FALSE, res |-> res, sn |-> <<>>, sp |-> <<>>, why |-> why]

RECURSIVE FieldTypeAt(_, _)
\* the type of the field at a path of field indexes of a struct type
FieldTypeAt(st, sp) ==
  IF sp = <<>> THEN st ELSE FieldTypeAt(Field(st, Head(sp)).Type, Tail(sp))

RECURSIVE FieldValueAt(_, _)
\* reflect.Value.Field along a path of field indexes
FieldValueAt(sv, sp) ==
  IF sp = <<>> THEN sv ELSE FieldValueAt(sv[Head(sp)], Tail(sp))

RECURSIVE findSourceField(_, _, _, _, _)

\* The probe of one anonymous struct field, handed the caller's own Result.
probeShared(m, result, ft, fv, destField) ==
  {[o |-> o, res |-> o.res] : o \in findSourceField(m, result, ft, fv, destField)}

\* The probe of one anonymous struct field (mapper.go:248): findSourceField on
\* a fresh &Result{}, which is discarded; the caller's Result is untouched.
probe(m, result, ft, fv, destField) ==
  {[o |-> o, res |-> result] : o \in findSourceField(m, EmptyResult, ft, fv, destField)}

RECURSIVE probeFrom(_, _, _, _, _, _)
\* The second loop of findSourceField (mapper.go:244-256) from source field k
\* on: the first anonymous struct field whose probe finds the field wins; when
\* none does, the scope path is appended to the caller's MissingSourceFields.
probeFrom(m, result, st, sv, destField, k) ==
  IF k > NumField(st)
  THEN {NotFound([result EXCEPT !.MissingSourceFields = Append(@, scopedFieldName(result))],
                 "missing")}
  ELSE IF Field(st, k).Anonymous /\ Kind(Field(st, k).Type) = "struct"
  THEN LET ps == probe(m, result, Field(st, k).Type, sv[k], destField)
       IN  {Found(p.res, <<k>> \o p.o.sp, <<Field(st, k).Name>> \o p.o.sn) :
              p \in {q \in ps : q.o.ok}}
           \cup UNION {probeFrom(m, p.res, st, sv, destField, k + 1) :
                         p \in {q \in ps : ~q.o.ok}}
  ELSE probeFrom(m, result, st, sv, destField, k + 1)

\* Mapper.findSourceField: the set of outcomes the call can have (one, unless
\* several rename entries match the destination field). The ignore check
\* (mapper.go:233-235) comes first; source.NumField() (mapper.go:236) panics
\* on a source that is no struct.
findSourceField(m, result, st, sv, destField) ==
  UNION {
    IF includes(m, m.IgnoreDestFields, destFieldName)
    THEN {NotFound(result, "ignored")}
    ELSE IF Kind(st) # "struct"
    THEN {NotFound(result, "panic")}
    ELSE IF directMatch(m, st, destFieldName) # 0
    THEN LET k == directMatch(m, st, destFieldName)
         IN  {Found(result, <<k>>, <<Field(st, k).Name>>)}
    ELSE probeFrom(m, result, st, sv, destField, 1)
    : destFieldName \in formattedDestFieldName(m, destField)}

----------------------------------------------------------------------------
(* The state *)

Calls == {1, 2}

VARIABLES
  m,       \* the Mapper the calls share (read-only during a call)
  input,   \* per call: the arguments of Map, [st, sv, dt, destIsPtr]
  status,  \* per call: "unused", "ready", "running", "panicking" (a panic is
           \* unwinding), "returned", "panicked" (the panic left Map),
           \* "overflow" (the stack ran full and the runtime ended the program)
  stack,   \* per call: the call stack below Map, one frame per invocation
  dest,    \* per call: the value the dest pointer points to
  rp,      \* per call: Map's local variable result, the Result it points to
  result,  \* the Result objects
  panic,   \* per call: the value of the panic under way or that left Map
  log      \* per call: history of what the traversal did, in order

vars == <<m, input, status, stack, dest, rp, result, panic, log>>

\* A frame is one invocation of mapValues. op tells how far it got:
\* "mapValues" (entered), "ptr" (mapper.go:120-123, tmp is val), "struct" (the
\* loop of mapper.go:144-156 at field i; pc "push", "field", "infield" while
\* mapField runs, "check"), "slice" (mapSlice: tmp is target, val the element
\* under construction, i is j+1) or "check" (checkArrayTypesAreCompatible: tmp
\* is the value dummyDest points to). loc is where destVal lives: in root 0 (the
\* destination of Map) or in slot tmp/val of the frame at index f, at path p of
\* field indexes. lp and syn are history: the path of the value in the
\* destination of Map, and whether it belongs to a synthetic element.
Frame(op, st, sv, dt, loc, lp, syn) ==
  [op |-> op, st |-> st, sv |-> sv, dt |-> dt, loc |-> loc, i |-> 1, pc |-> "",
   tmp |-> <<>>, val |-> <<>>, lp |-> lp, syn |-> syn]

Loc(f, slot, p) == [f |-> f, slot |-> slot, p |-> p]

Top(c) == stack[c][Len(stack[c])]
Pop(s) == SubSeq(s, 1, Len(s) - 1)
SetTop(s, f) == [s EXCEPT ![Len(s)] = f]

RECURSIVE Put(_, _, _)
\* The value v with x stored at path p of field indexes.
Put(v, p, x) ==
  IF p = <<>> THEN x ELSE [v EXCEPT ![Head(p)] = Put(@, Tail(p), x)]

\* reflect.Value.Set and its kin on the value at loc: mem is [d, s], the
\* destination of Map and the stack that holds the temporaries.
Write(mem, loc, x) ==
  IF loc.f = 0 THEN [mem EXCEPT !.d = Put(@, loc.p, x)]
  ELSE [mem EXCEPT !.s[loc.f][loc.slot] = Put(@, loc.p, x)]

\* The names of the fields being mapped by the struct loops of a stack, outermost
\* first: what the scope of the call holds between a push and its pop.
FieldPath(s) ==
  LET open == SelectSeq(s, LAMBDA f : f.op = "struct" /\ f.pc \in {"field", "infield", "check"})
  IN  [k \in 1..Len(open) |-> Field(open[k].dt, open[k].i).Name]

InSequence(s) == \E k \in 1..Len(s) : s[k].op = "slice"

\* A history entry. ev: "miss", "ignored", "found", "write", "err" (an error
\* added to Errors), "recovered" (a panic caught by mapField and added to
\* Errors). path: the dotted path of the field being mapped; st, dt, i: the
\* source and destination types of the invocation and its field index; dn and
\* sn: the name of the destination field (its tag name when configured) and the
\* path of source field names it was resolved to; at: the index of the entry in
\* Errors, for "err" and "recovered".
Event(ev, s, f, dn, sn, at) ==
  [ev |-> ev, path |-> Join(FieldPath(s), <<".">>), lp |-> f.lp, syn |-> f.syn,
   inSeq |-> InSequence(s), depth |-> Len(FieldPath(s)), st |-> f.st, dt |-> f.dt,
   i |-> f.i, dn |-> dn, sn |-> sn, at |-> at]

----------------------------------------------------------------------------
(* Map *)

\* One Result kept by the Mapper and used by every call of Map.
newResultShared(c) == 1

\* result := &Result{} (mapper.go:47): every call of Map makes a Result of its
\* own; the Result made by call c is object c.
newResult(c) == c

\* Mapper.Map up to the call of mapValues (mapper.go:46-54).
Map(c) ==
  /\ status[c] = "ready"
  /\ rp' = [rp EXCEPT ![c] = newResult(c)]
  /\ result' = [result EXCEPT ![newResult(c)] = EmptyResult]
  /\ IF ~input[c].destIsPtr
     THEN /\ status' = [status EXCEPT ![c] = "panicked"]
          /\ panic' = [panic EXCEPT ![c] = PlainPanic("Dest must be a pointer type")]
          /\ UNCHANGED stack
     ELSE /\ status' = [status EXCEPT ![c] = "running"]
          /\ stack' = [stack EXCEPT ![c] =
                         <<Frame("mapValues", input[c].st, input[c].sv, input[c].dt,
                                 Loc(0, "tmp", <<>>), <<>>, FALSE)>>]
          /\ UNCHANGED panic
  /\ UNCHANGED <<m, input, dest, log>>

\* Mapper.Map after mapValues returned (mapper.go:55-62).
MapReturn(c) ==
  /\ status[c] = "running"
  /\ stack[c] = <<>>
  /\ LET r == result[rp[c]]
         errMsg == MissingError(r.MissingSourceFields)
     IN  IF Len(r.MissingSourceFields) > 0 /\ m.PanicOnMissingField
         THEN /\ status' = [status EXCEPT ![c] = "panicked"]
              /\ panic' = [panic EXCEPT ![c] = errMsg]
              /\ UNCHANGED result
         ELSE /\ status' = [status EXCEPT ![c] = "returned"]
              /\ result' = [result EXCEPT ![rp[c]] =
                              IF Len(r.MissingSourceFields) > 0 THEN addError(r, errMsg) ELSE r]
              /\ UNCHANGED panic
  /\ UNCHANGED <<m, input, stack, dest, rp, log>>

----------------------------------------------------------------------------
(* mapValues *)

Logged(c, e) == [log EXCEPT ![c] = Append(@, e)]

\* A panic starts in call c with value r; the stack is left for the unwinding.
Panics(c, r, newStack) ==
  /\ status' = [status EXCEPT ![c] = "panicking"]
  /\ panic' = [panic EXCEPT ![c] = r]
  /\ stack' = [stack EXCEPT ![c] = newStack]

\* A call in mapValues, mapField or mapSlice finds the stack of call c full: the
\* Go runtime ends the program with "fatal error: stack overflow", which is no
\* panic; no deferred function runs and Map neither returns nor panics.
StackOverflow(c) ==
  /\ status' = [status EXCEPT ![c] = "overflow"]
  /\ UNCHANGED <<m, input, stack, dest, rp, result, panic, log>>

\* The stack of call c has no room for another invocation.
StackFull(c) == Len(stack[c]) >= StackLimit

\* The top invocation stores x in its destVal and returns.
WriteAndReturn(c, x) ==
  LET mem == Write([d |-> dest[c], s |-> stack[c]], Top(c).loc, x)
  IN  /\ dest' = [dest EXCEPT ![c] = mem.d]
      /\ stack' = [stack EXCEPT ![c] = Pop(mem.s)]
      /\ log' = Logged(c, Event("write", stack[c], Top(c), <<>>, <<>>, 0))
      /\ UNCHANGED <<m, input, status, rp, result, panic>>

\* The dereference of a pointer source without the replacement of a nil one: a
\* nil pointer reaches the struct loop as it is.
derefSourceKeepNil(st, sv, dt) ==
  IF Kind(dt) = "struct" /\ Kind(st) = "ptr" /\ sv # <<>>
  THEN [t |-> Elem(st), v |-> sv[1]]
  ELSE [t |-> st, v |-> sv]

\* The source after mapper.go:92-103: a pointer source is dereferenced when the
\* destination is a struct, a nil one replaced by a new zero value first.
derefSource(st, sv, dt) ==
  IF Kind(dt) = "struct" /\ Kind(st) = "ptr"
  THEN [t |-> Elem(st), v |-> IF sv = <<>> THEN Zero(Elem(st)) ELSE sv[1]]
  ELSE [t |-> st, v |-> sv]

\* The end of mapValues (mapper.go:200-204): no rule applies to the pair.
notSupported(c, st, dt) ==
  IF m.PanicOnIncompatibleTypes
  THEN /\ Panics(c, Unsupported(st, dt), stack[c])
       /\ UNCHANGED <<m, input, dest, rp, result, log>>
  ELSE /\ result' = [result EXCEPT ![rp[c]] = addError(@, Unsupported(st, dt))]
       /\ stack' = [stack EXCEPT ![c] = Pop(@)]
       /\ log' = Logged(c, Event("err", stack[c], Top(c), <<>>, <<>>,
                                 Len(result[rp[c]].Errors) + 1))
       /\ UNCHANGED <<m, input, status, dest, rp, panic>>

\* The rules with the identical-type copy ahead of the time.Time rule, the
\* struct loop and the coercions: the identical-type rule as a fast path.
RuleOrderCopyFirst(src, dt) ==
  IF Kind(dt) # "ptr" /\ dt = src.t THEN "leaf"
  ELSE IF Kind(dt) = "ptr" THEN "ptr"
  ELSE IF isTime(dt) /\ isTime(src.t) THEN "time"
  ELSE IF Kind(dt) = "struct" THEN "struct"
  ELSE IF coerce(src.t, src.v, dt).ok THEN "leaf"
  ELSE IF Kind(dt) = "slice" THEN "slice"
  ELSE "unsupported"

\* The rule mapValues applies to a pair once no custom mapper handled it, in the
\* order of mapper.go:116-204.
RuleOrder(src, dt) ==
  IF Kind(dt) = "ptr" THEN "ptr"
  ELSE IF isTime(dt) /\ isTime(src.t) THEN "time"
  ELSE IF Kind(dt) = "struct" THEN "struct"
  ELSE IF coerce(src.t, src.v, dt).ok THEN "leaf"
  ELSE IF Kind(dt) = "slice" THEN "slice"
  ELSE "unsupported"

\* Mapper.mapValues from its entry to its first call or its return
\* (mapper.go:89-205).
mapValues(c) ==
  /\ status[c] = "running"
  /\ stack[c] # <<>>
  /\ Top(c).op = "mapValues"
  /\ LET f == Top(c)
         n == Len(stack[c])
         src == derefSource(f.st, f.sv, f.dt)
         h == FirstHandler(m, src.t, f.dt)
         rule == RuleOrder(src, f.dt)
     IN  IF h # 0
         THEN WriteAndReturn(c, CustomOut(m.CustomMappers[h], src.v))
         ELSE IF rule = "ptr"
         THEN IF valueIsNil(src.t, src.v)
              THEN /\ stack' = [stack EXCEPT ![c] = Pop(@)]
                   /\ UNCHANGED <<m, input, status, dest, rp, result, panic, log>>
              ELSE IF StackFull(c) THEN StackOverflow(c)
              ELSE /\ stack' = [stack EXCEPT ![c] =
                        Append(SetTop(@, [f EXCEPT !.op = "ptr", !.tmp = Zero(Elem(f.dt))]),
                               Frame("mapValues", src.t, src.v, Elem(f.dt),
                                     Loc(n, "tmp", <<>>), Append(f.lp, 1), f.syn))]
                   /\ UNCHANGED <<m, input, status, dest, rp, result, panic, log>>
         ELSE IF rule = "time"
         THEN WriteAndReturn(c, src.v)
         ELSE IF rule = "struct"
         THEN /\ stack' = [stack EXCEPT ![c] =
                   IF NumField(f.dt) = 0 THEN Pop(@)
                   ELSE SetTop(@, [f EXCEPT !.op = "struct", !.st = src.t, !.sv = src.v,
                                            !.i = 1, !.pc = "push"])]
              /\ UNCHANGED <<m, input, status, dest, rp, result, panic, log>>
         ELSE IF rule = "leaf"
         THEN WriteAndReturn(c, coerce(src.t, src.v, f.dt).v)
         ELSE IF rule = "slice"
         THEN \* mapSlice up to its loop (mapper.go:321-324); Len panics on a
              \* source that is no slice
              IF Kind(src.t) # "slice"
              THEN /\ Panics(c, ReflectPanic("reflect: call of Len", src.t), stack[c])
                   /\ UNCHANGED <<m, input, dest, rp, result, log>>
              ELSE /\ stack' = [stack EXCEPT ![c] =
                        SetTop(@, [f EXCEPT !.op = "slice", !.i = 1, !.pc = "elem",
                                            !.tmp = [k \in 1..Len(src.v) |-> Zero(Elem(f.dt))]])]
                   /\ UNCHANGED <<m, input, status, dest, rp, result, panic, log>>
         ELSE notSupported(c, src.t, f.dt)

\* destVal.Set(val) of a pointer destination, after the recursive call
\* (mapper.go:122-123).
ptrSet(c) ==
  /\ status[c] = "running"
  /\ stack[c] # <<>>
  /\ Top(c).op = "ptr"
  /\ WriteAndReturn(c, <<Top(c).tmp>>)

----------------------------------------------------------------------------
(* The struct loop, mapField and the scope *)

\* result.scope = append(result.scope, destType.Field(i).Name) (mapper.go:145)
scopePush(c) ==
  /\ status[c] = "running"
  /\ stack[c] # <<>>
  /\ Top(c).op = "struct" /\ Top(c).pc = "push"
  /\ result' = [result EXCEPT ![rp[c]].scope = Append(@, Field(Top(c).dt, Top(c).i).Name)]
  /\ stack' = [stack EXCEPT ![c] = SetTop(@, [Top(c) EXCEPT !.pc = "field"])]
  /\ UNCHANGED <<m, input, status, dest, rp, panic, log>>

\* Mapper.mapField up to its call of mapValues (mapper.go:208-227):
\* findSourceField, which panics in NumField on a source that is no struct
\* unless the destination field is ignored,
\* then either the return on an invalid source field or the call of mapValues.
mapField(c) ==
  /\ status[c] = "running"
  /\ stack[c] # <<>>
  /\ Top(c).op = "struct" /\ Top(c).pc = "field"
  /\ LET f == Top(c)
         df == Field(f.dt, f.i)
         s1 == SetTop(stack[c], [f EXCEPT !.pc = "infield"])
     IN  IF StackFull(c) THEN StackOverflow(c)
         ELSE \E o \in findSourceField(m, result[rp[c]], f.st, f.sv, df) :
                IF o.why = "panic"
                THEN /\ Panics(c, ReflectPanic("reflect: call of NumField", f.st), s1)
                     /\ UNCHANGED <<m, input, dest, rp, result, log>>
                ELSE /\ result' = [result EXCEPT ![rp[c]] = o.res]
                     /\ log' = Logged(c, Event(IF o.why = "missing" THEN "miss" ELSE o.why,
                                               stack[c], f, TagOrName(m.DestTag, df), o.sn, 0))
                     /\ stack' = [stack EXCEPT ![c] =
                          IF o.ok
                          THEN Append(s1, Frame("mapValues", FieldTypeAt(f.st, o.sp),
                                                FieldValueAt(f.sv, o.sp), df.Type,
                                                [f.loc EXCEPT !.p = Append(@, f.i)],
                                                Append(f.lp, f.i), f.syn))
                          ELSE SetTop(@, [f EXCEPT !.pc = "check"])]
                     /\ UNCHANGED <<m, input, status, dest, rp, panic>>

\* mapField returns after its call of mapValues returned (mapper.go:227-228).
mapFieldReturn(c) ==
  /\ status[c] = "running"
  /\ stack[c] # <<>>
  /\ Top(c).op = "struct" /\ Top(c).pc = "infield"
  /\ stack' = [stack EXCEPT ![c] = SetTop(@, [Top(c) EXCEPT !.pc = "check"])]
  /\ UNCHANGED <<m, input, status, dest, rp, result, panic, log>>

\* The deferred function of mapField (mapper.go:212-220): a panic that reaches
\* mapField is wrapped with the field and the types, then raised again or
\* added to Errors.
recover(c) ==
  /\ status[c] = "panicking"
  /\ stack[c] # <<>>
  /\ Top(c).op = "struct" /\ Top(c).pc = "infield"
  /\ LET f == Top(c)
         errMsg == FieldError(Field(f.dt, f.i).Name, f.dt, f.st, panic[c])
     IN  IF m.PanicOnIncompatibleTypes
         THEN /\ panic' = [panic EXCEPT ![c] = errMsg]
              /\ stack' = [stack EXCEPT ![c] = Pop(@)]
              /\ status' = [status EXCEPT ![c] =
                              IF Len(stack[c]) = 1 THEN "panicked" ELSE "panicking"]
              /\ UNCHANGED <<m, input, dest, rp, result, log>>
         ELSE /\ result' = [result EXCEPT ![rp[c]] = addError(@, errMsg)]
              /\ status' = [status EXCEPT ![c] = "running"]
              /\ stack' = [stack EXCEPT ![c] = SetTop(@, [f EXCEPT !.pc = "check"])]
              /\ log' = Logged(c, Event("recovered", stack[c], f, <<>>, <<>>,
                                        Len(result[rp[c]].Errors) + 1))
              /\ UNCHANGED <<m, input, dest, rp, panic>>

\* The scope checks and the pop (mapper.go:149-155), then the loop's step: the
\* next field, or the return of mapValues after the last one.
scopePop(c) ==
  /\ status[c] = "running"
  /\ stack[c] # <<>>
  /\ Top(c).op = "struct" /\ Top(c).pc = "check"
  /\ LET f == Top(c)
         scope == result[rp[c]].scope
     IN  IF Len(scope) = 0
         THEN /\ Panics(c, PlainPanic("Scope length is unexpectedly zero"), stack[c])
              /\ UNCHANGED <<m, input, dest, rp, result, log>>
         ELSE IF Len(scope) > ScopeLimit
         THEN /\ Panics(c, PlainPanic("scope stack is too large"), stack[c])
              /\ UNCHANGED <<m, input, dest, rp, result, log>>
         ELSE /\ result' = [result EXCEPT ![rp[c]].scope = SubSeq(scope, 1, Len(scope) - 1)]
              /\ stack' = [stack EXCEPT ![c] =
                   IF f.i = NumField(f.dt) THEN Pop(@)
                   ELSE SetTop(@, [f EXCEPT !.i = f.i + 1, !.pc = "push"])]
              /\ UNCHANGED <<m, input, status, dest, rp, panic, log>>

\* A panic leaves an invocation that does not recover it; once it has left the
\* outermost one it leaves Map.
unwind(c) ==
  /\ status[c] = "panicking"
  /\ stack[c] # <<>>
  /\ ~(Top(c).op = "struct" /\ Top(c).pc = "infield")
  /\ stack' = [stack EXCEPT ![c] = Pop(@)]
  /\ status' = [status EXCEPT ![c] = IF Len(stack[c]) = 1 THEN "panicked" ELSE "panicking"]
  /\ UNCHANGED <<m, input, dest, rp, result, panic, log>>

----------------------------------------------------------------------------
(* mapSlice and checkArrayTypesAreCompatible *)

\* One turn of the loop of mapSlice up to its call of mapValues
\* (mapper.go:325-327): val is a new zero element.
mapSliceElem(c) ==
  /\ status[c] = "running"
  /\ stack[c] # <<>>
  /\ Top(c).op = "slice" /\ Top(c).pc = "elem"
  /\ Top(c).i <= Len(Top(c).sv)
  /\ LET f == Top(c)
         n == Len(stack[c])
     IN  IF StackFull(c) THEN StackOverflow(c)
         ELSE /\ stack' = [stack EXCEPT ![c] =
                   Append(SetTop(@, [f EXCEPT !.pc = "set", !.val = Zero(Elem(f.dt))]),
                          Frame("mapValues", Elem(f.st), f.sv[f.i], Elem(f.dt),
                                Loc(n, "val", <<>>), Append(f.lp, f.i), f.syn))]
              /\ UNCHANGED <<m, input, status, dest, rp, result, panic, log>>

\* target.Index(j).Set(val) (mapper.go:328) and j++.
mapSliceSet(c) ==
  /\ status[c] = "running"
  /\ stack[c] # <<>>
  /\ Top(c).op = "slice" /\ Top(c).pc = "set"
  /\ LET f == Top(c)
     IN  stack' = [stack EXCEPT ![c] =
           SetTop(@, [f EXCEPT !.tmp[f.i] = f.val, !.i = f.i + 1, !.pc = "elem"])]
  /\ UNCHANGED <<m, input, status, dest, rp, result, panic, log>>

\* mapSlice on an empty source calls checkArrayTypesAreCompatible
\* (mapper.go:330-331, 340-343): dummyDest points to a nil pointer to the
\* destination's slice type, dummySource is a source slice of one zero
\* element, and mapValues runs on the two.
checkArrayTypesAreCompatible(c) ==
  /\ status[c] = "running"
  /\ stack[c] # <<>>
  /\ Top(c).op = "slice" /\ Top(c).pc = "elem"
  /\ Len(Top(c).sv) = 0
  /\ LET f == Top(c)
         n == Len(stack[c])
         dummySource == <<Zero(Elem(f.st))>>
     IN  IF StackFull(c) THEN StackOverflow(c)
         ELSE /\ stack' = [stack EXCEPT ![c] =
                   SetTop(@, [f EXCEPT !.pc = "checked"])
                   \o <<[Frame("check", f.st, dummySource, PtrTo(f.dt), f.loc, f.lp, TRUE)
                           EXCEPT !.tmp = Zero(PtrTo(f.dt))],
                        Frame("mapValues", f.st, dummySource, PtrTo(f.dt),
                              Loc(n + 1, "tmp", <<>>), f.lp, TRUE)>>]
              /\ UNCHANGED <<m, input, status, dest, rp, result, panic, log>>

\* checkArrayTypesAreCompatible returns (mapper.go:344): its dummies are gone.
checkReturn(c) ==
  /\ status[c] = "running"
  /\ stack[c] # <<>>
  /\ Top(c).op = "check"
  /\ stack' = [stack EXCEPT ![c] = Pop(@)]
  /\ UNCHANGED <<m, input, status, dest, rp, result, panic, log>>

\* destVal.Set(target) (mapper.go:333), and mapSlice and mapValues return.
mapSliceSetDest(c) ==
  /\ status[c] = "running"
  /\ stack[c] # <<>>
  /\ Top(c).op = "slice"
  /\ \/ Top(c).pc = "checked"
     \/ Top(c).pc = "elem" /\ Len(Top(c).sv) > 0 /\ Top(c).i > Len(Top(c).sv)
  /\ WriteAndReturn(c, Top(c).tmp)

----------------------------------------------------------------------------
(* Inputs *)

Mapper(pm, pi, maps, ic, fz, dtag, cm, ign) ==
  [PanicOnMissingField |-> pm, PanicOnIncompatibleTypes |-> pi, FieldNameMaps |-> maps,
   IgnoreCase |-> ic, SourceTag |-> "", DestTag |-> dtag, FuzzyMatchFieldNames |-> fz,
   CustomMappers |-> cm, IgnoreDestFields |-> ign]

\* testMapper of the tests: both panic switches off
testMapper == Mapper(FALSE, FALSE, {}, FALSE, FALSE, "", <<>>, <<>>)
\* DefaultMapper (mapper.go:27-30)
DefaultMapper == Mapper(TRUE, TRUE, {}, FALSE, FALSE, "", <<>>, <<>>)
\* &Mapper{PanicOnMissingField: true} of the tests
missingPanics == Mapper(TRUE, FALSE, {}, FALSE, FALSE, "", <<>>, <<>>)
\* &Mapper{PanicOnIncompatibleTypes: true} of the tests
typePanics == Mapper(FALSE, TRUE, {}, FALSE, FALSE, "", <<>>, <<>>)
\* TestWithUnnamedFields: FieldNameMaps {"SourceTypeA": "DestTypeA"}
renaming == Mapper(FALSE, FALSE, {[k |-> nSourceTypeA, v |-> nDestTypeA]},
                   FALSE, FALSE, "", <<>>, <<>>)
\* a rename with key Baz and value Bar
renamingBazBar == Mapper(FALSE, FALSE, {[k |-> nBaz, v |-> nBar]},
                         FALSE, FALSE, "", <<>>, <<>>)
\* a rename with key Foo and value Bar
renamingFooBar == Mapper(FALSE, FALSE, {[k |-> nFoo, v |-> nBar]},
                         FALSE, FALSE, "", <<>>, <<>>)
\* two renames with one value: keys Foo and Bar, value Qux
renamingTwoKeys == Mapper(FALSE, FALSE, {[k |-> nFoo, v |-> nQux], [k |-> nBar, v |-> nQux]},
                          FALSE, FALSE, "", <<>>, <<>>)
\* TestSourceComposedStruct: IgnoreDestFields {"DestTypeA", "Model"}
ignoring == Mapper(FALSE, FALSE, {}, FALSE, FALSE, "", <<>>, <<nDestTypeA, nModel>>)
ignoringBar == Mapper(FALSE, FALSE, {}, FALSE, FALSE, "", <<>>, <<nBar>>)
fuzzyNames == Mapper(FALSE, FALSE, {}, FALSE, TRUE, "", <<>>, <<>>)
ignoreCaseTagged == Mapper(FALSE, FALSE, {}, TRUE, FALSE, "json", <<>>, <<>>)
withCustom == Mapper(FALSE, FALSE, {}, FALSE, FALSE, "", <<"decline", "stringToInt">>, <<>>)

In(st, sv, dt) == [st |-> st, sv |-> sv, dt |-> dt, destIsPtr |-> TRUE]
\* Map(&source, &dest) with source of the named type id
ByPtr(id, v, dt) == In(PtrTo(N(id)), <<v>>, dt)

\* n children, child k with Foo k
Kids(n) == [k \in 1..n |-> <<k, "bar">>]
\* n parents, parent k with k-1 children
Folks(n) == [k \in 1..n |-> <<Kids(k - 1)>>]

aTime == <<7, 9, <<>>>>
laterTime == <<8, 9, <<>>>>

\* The inputs are lists, not sets: values of different types are never compared.

\* SourceTypeA to DestTypeA (TestDestinationIsUpdatedFromSource and others)
BasicInputs ==
  <<ByPtr("SourceTypeA", <<0, "">>, N("DestTypeA")),
    ByPtr("SourceTypeA", <<42, "Bar">>, N("DestTypeA")),
    In(N("SourceTypeA"), <<42, "Bar">>, N("DestTypeA")),
    In(N("SourceTypeA"), <<42, "Bar">>, N("SourceTypeA")),
    In(N("int16"), 300, N("int8")),
    [In(N("SourceTypeA"), <<42, "Bar">>, N("DestTypeA")) EXCEPT !.destIsPtr = FALSE]>>

\* the numeric conversions (TestDefaultInt32ToIntConversion and others)
NumInputs ==
  <<ByPtr("SrcNums", <<0 - 129, 255, 200, 5, 8, 0 - 128>>, N("DstNums")),
    ByPtr("SrcNums", <<300, 0, 65535, 10, 0, 127>>, N("DstNums")),
    ByPtr("SrcNums", <<127, 7, 100, 14, 4, 0 - 1>>, N("DstNums")),
    ByPtr("SrcNums", <<9, 9, 9, 7, 12, 9>>, N("DstNums")),
    ByPtr("MyIntBox", <<5>>, N("IntBox")),
    ByPtr("MyIntBox", <<5>>, N("MyIntBox"))>>

\* missing source fields (TestWithLooseOption, TestWhenSourceIsMissingField)
LooseInputs ==
  <<ByPtr("SrcLoose", <<"Foo", 42>>, N("DstLoose")),
    ByPtr("SrcLoose", <<"Foo", 42>>, N("DstLooseRev"))>>

\* slices (TestWithSliceTypes, TestWithMultiLevelSlices): 0..MaxLen elements
SliceInputs ==
  [n \in 1..(MaxLen + 1) |-> ByPtr("SourceParent", <<Kids(n - 1)>>, N("DestParent"))]
  \o [n \in 1..(MaxLen + 1) |-> ByPtr("SourceParent", <<Kids(n - 1)>>, N("DestParentB"))]
  \o [n \in 1..(MaxLen + 1) |-> ByPtr("SrcGrand", <<Folks(n - 1)>>, N("DstGrand"))]
  \o <<In(SliceOf(N("SourceTypeA")), Kids(1), SliceOf(N("DestTypeA")))>>

\* empty slices and element types (TestErrorWithEmptySliceAndIncompatibleTypes)
ElementInputs ==
  [n \in 1..(MaxLen + 1) |->
     ByPtr("SrcKids", <<[k \in 1..(n - 1) |-> <<"x">>]>>, N("DstKids"))]
  \o <<ByPtr("SrcStrs", <<<<>>>>, N("DstInts")),
       ByPtr("SrcStrs", <<<<"x">>>>, N("DstInts")),
       ByPtr("SrcPtrStrs", <<<<>>>>, N("DstPtrInts")),
       ByPtr("SrcPtrStrs", <<<<<<>>>>>>, N("DstPtrInts")),
       ByPtr("SrcPtrStrs", <<<<<<"x">>>>>>, N("DstPtrInts"))>>

\* a nil pointer, a pointer to a zero SourceTypeA, a pointer to a filled one
PtrInputsTo(dt) ==
  <<ByPtr("SrcPtr", <<<<>>>>, dt),
    ByPtr("SrcPtr", <<<<<<0, "">>>>>>, dt),
    ByPtr("SrcPtr", <<<<<<42, "Bar">>>>>>, dt)>>

\* pointers (TestWithPointerFieldsNil, TestMapFromPointerToNonPointerType...)
PtrInputs ==
  PtrInputsTo(N("DstPtr")) \o PtrInputsTo(N("DstNonPtr")) \o PtrInputsTo(N("DstNonPtrBaz"))
  \o <<ByPtr("PtrStr", <<<<>>>>, N("PtrStr")),
       ByPtr("PtrStr", <<<<"x">>>>, N("PtrStr"))>>

\* incompatible types (TestWhenUsingIncompatibleTypes) and sources reflect
\* panics on
BadInputs ==
  <<ByPtr("FooString", <<"x">>, N("FooInt")),
    ByPtr("FooInt", <<3>>, N("DstNonPtr")),
    ByPtr("FooInt", <<3>>, N("FooSlice")),
    ByPtr("FooSlice", <<<<1, 2>>>>, N("FooSlice"))>>

\* embedded structs (TestWithUnnamedFields, TestSourceComposedStruct)
EmbeddedInputs ==
  <<ByPtr("SrcUnnamed", <<"Baz", <<42, "Bar">>>>, N("DstUnnamed")),
    In(N("structWithModel"), <<<<1, aTime, laterTime, <<>>>>, "Test">>, N("dto")),
    In(N("structWithModel"), <<<<1, aTime, laterTime, <<aTime>>>>, "Test">>, N("dto")),
    In(N("structWithModel"), <<<<1, aTime, laterTime, <<>>>>, "Test">>, N("dtoExtra")),
    In(N("Deep"), << << <<5>>, "t" >>, <<42, "Bar">>, "Test">>, N("dtoExtra")),
    In(N("Deep"), << << <<5>>, "t" >>, <<42, "Bar">>, "Test">>, N("DestTypeB"))>>

\* names: fuzzy matching, tags, renames
NameInputs ==
  <<ByPtr("SrcSnake", <<3, "b">>, N("DstCamel")),
    ByPtr("SourceTypeA", <<42, "Bar">>, N("DstTagged")),
    ByPtr("SrcLoose", <<"Foo", 42>>, N("DstLooseRev")),
    ByPtr("IntPair", <<1, 2>>, N("IntPair")),
    ByPtr("IntPair", <<1, 2>>, N("QuxBox"))>>

\* record types that hold a slice of themselves: a node without children and
\* a node with one child, to a node of another type and of its own type
NodeInputs ==
  <<ByPtr("SrcNode", <<<<>>>>, N("DstNode")),
    ByPtr("SrcNode", <<<<<<<<>>>>>>>>, N("DstNode")),
    ByPtr("SrcNode", <<<<<<<<>>>>>>>>, N("SrcNode"))>>

AllInputs ==
  BasicInputs \o NumInputs \o LooseInputs \o SliceInputs \o ElementInputs
  \o PtrInputs \o BadInputs \o EmbeddedInputs \o NodeInputs

\* the mappers every input is run with
PolicyMappers == <<testMapper, DefaultMapper, missingPanics, typePanics>>

\* the mappers that change how names are matched and values written
OptionMappers ==
  <<renaming, renamingBazBar, renamingFooBar, renamingTwoKeys, ignoring, ignoringBar, fuzzyNames, ignoreCaseTagged,
    withCustom>>
OptionInputs == NameInputs \o EmbeddedInputs \o BasicInputs \o BadInputs

\* the inputs of two concurrent calls of Map
ConcInputs ==
  LooseInputs
  \o [n \in 1..(MaxLen + 1) |-> ByPtr("SourceParent", <<Kids(n - 1)>>, N("DestParentB"))]
  \o PtrInputsTo(N("DstNonPtr")) \o PtrInputsTo(N("DstNonPtrBaz"))
  \o <<ByPtr("FooInt", <<3>>, N("FooSlice")),
       ByPtr("SrcPtr", <<<<<<42, "Bar">>>>>>, N("DstPtr"))>>
ConcMappers == <<testMapper, missingPanics>>

----------------------------------------------------------------------------
(* Specifications *)

Idle ==
  /\ stack = [c \in Calls |-> <<>>]
  /\ rp = [c \in Calls |-> c]
  /\ result = [c \in Calls |-> EmptyResult]
  /\ panic = [c \in Calls |-> PlainPanic("")]
  /\ log = [c \in Calls |-> <<>>]

\* One call of Map: call 1; call 2 is never made.
Init ==
  /\ \/ \E i \in 1..Len(PolicyMappers), k \in 1..Len(AllInputs) :
          /\ m = PolicyMappers[i]
          /\ input = [c \in Calls |-> AllInputs[k]]
     \/ \E i \in 1..Len(OptionMappers), k \in 1..Len(OptionInputs) :
          /\ m = OptionMappers[i]
          /\ input = [c \in Calls |-> OptionInputs[k]]
  /\ dest = [c \in Calls |-> Zero(input[c].dt)]
  /\ status = [c \in Calls |-> IF c = 1 THEN "ready" ELSE "unused"]
  /\ Idle

\* Two calls of Map on one Mapper, their steps interleaved.
InitConc ==
  /\ \E i \in 1..Len(ConcMappers) : m = ConcMappers[i]
  /\ \E k \in [Calls -> 1..Len(ConcInputs)] : input = [c \in Calls |-> ConcInputs[k[c]]]
  /\ dest = [c \in Calls |-> Zero(input[c].dt)]
  /\ status = [c \in Calls |-> "ready"]
  /\ Idle

Next ==
  \E c \in Calls :
    \/ Map(c)
    \/ mapValues(c)
    \/ ptrSet(c)
    \/ scopePush(c)
    \/ mapField(c)
    \/ mapFieldReturn(c)
    \/ recover(c)
    \/ scopePop(c)
    \/ unwind(c)
    \/ mapSliceElem(c)
    \/ mapSliceSet(c)
    \/ checkArrayTypesAreCompatible(c)
    \/ checkReturn(c)
    \/ mapSliceSetDest(c)
    \/ MapReturn(c)

Spec == Init /\ [][Next]_vars

\* Two runs of Map with the same Mapper, the same source and the same initial
\* destination.
InitTwice ==
  /\ \/ \E i \in 1..Len(PolicyMappers), k \in 1..Len(AllInputs) :
          /\ m = PolicyMappers[i]
          /\ input = [c \in Calls |-> AllInputs[k]]
     \/ \E i \in 1..Len(OptionMappers), k \in 1..Len(OptionInputs) :
          /\ m = OptionMappers[i]
          /\ input = [c \in Calls |-> OptionInputs[k]]
  /\ dest = [c \in Calls |-> Zero(input[c].dt)]
  /\ status = [c \in Calls |-> "ready"]
  /\ Idle

SpecTwice == InitTwice /\ [][Next]_vars

SpecConc == InitConc /\ [][Next]_vars

----------------------------------------------------------------------------
(* Properties *)

\* Map has returned normally, or a panic has left it.
Done(c) == status[c] \in {"returned", "panicked"}

\* The Result that Map returned in call c.
Returned(c) == result[rp[c]]

\* The entries of the history of call c of the kinds evs, in order.
Events(c, evs) == SelectSeq(log[c], LAMBDA e : e.ev \in evs)

\* How often x occurs in the sequence s.
Count(x, s) == Cardinality({k \in 1..Len(s) : s[k] = x})

\* The Mapper neither renames, ignores nor converts by custom mappers.
PlainMapper ==
  /\ m.FieldNameMaps = {}
  /\ m.IgnoreDestFields = <<>>
  /\ m.CustomMappers = <<>>

\* The index of the field of struct type t with the given name, 0 when none.
FieldNamed(t, name) ==
  IF \E k \in 1..NumField(t) : Field(t, k).Name = name
  THEN CHOOSE k \in 1..NumField(t) : Field(t, k).Name = name
  ELSE 0

\* Scalar types between which the mapper's coercion rules convert: signed to
\* signed, unsigned to unsigned, unsigned to signed, float to float.
Coercible(st, dt) ==
  \/ isIntType(st) /\ isIntType(dt)
  \/ isUintType(st) /\ isUintType(dt)
  \/ isUintType(st) /\ isIntType(dt)
  \/ isFloatType(st) /\ isFloatType(dt)

\* Go's conversion T(x) between numeric types: integers wrap to the width of T,
\* floats round to the precision of T.
GoConvert(dt, x) ==
  IF isIntType(dt) THEN SetInt(dt, x)
  ELSE IF isUintType(dt) THEN SetUint(dt, x)
  ELSE SetFloat(dt, x)

\* Two record types with the same field names, the corresponding fields of
\* identical types or of coercible scalar types.
SameShape(st, dt) ==
  /\ Kind(st) = "struct" /\ Kind(dt) = "struct"
  /\ NumField(st) = NumField(dt)
  /\ \A k \in 1..NumField(dt) :
       LET j == FieldNamed(st, Field(dt, k).Name)
       IN  /\ j # 0
           /\ \/ Field(st, j).Type = Field(dt, k).Type
              \/ Coercible(Field(st, j).Type, Field(dt, k).Type)

\* The destination a lossless mapping of a same-shaped source produces.
Lossless(st, sv, dt) ==
  [k \in 1..NumField(dt) |->
     LET j == FieldNamed(st, Field(dt, k).Name)
     IN  IF Field(st, j).Type = Field(dt, k).Type THEN sv[j]
         ELSE GoConvert(Field(dt, k).Type, sv[j])]

\* The source record of call c: the argument of Map, dereferenced.
SourceRecord(c) == derefSource(input[c].st, input[c].sv, input[c].dt)

\* Call c maps a same-shaped record with a plain Mapper.
SameShapeCall(c) ==
  /\ Done(c)
  /\ input[c].destIsPtr
  /\ PlainMapper
  /\ SameShape(SourceRecord(c).t, input[c].dt)

\* C1: mapping a source record to a destination record with the same field
\* names, whose corresponding fields have identical types or coercible scalar
\* types, leaves every destination field equal to the source value (cast to
\* the destination type), and Errors and MissingSourceFields empty.
C1_SameShapeIsLossless ==
  \A c \in Calls :
    SameShapeCall(c) =>
      /\ status[c] = "returned"
      /\ dest[c] = Lossless(SourceRecord(c).t, SourceRecord(c).v, input[c].dt)
      /\ Returned(c).Errors = <<>>
      /\ Returned(c).MissingSourceFields = <<>>

\* The fields of the record type t that are pointers.
HasPointerField(t) == \E k \in 1..NumField(t) : Kind(Field(t, k).Type) = "ptr"

\* The lossless mapping of same-shaped records none of whose fields is a
\* pointer (the part of C1 the code satisfies).
SameShapeWithoutPointersIsLossless ==
  \A c \in Calls :
    SameShapeCall(c) /\ ~HasPointerField(input[c].dt) =>
      /\ status[c] = "returned"
      /\ dest[c] = Lossless(SourceRecord(c).t, SourceRecord(c).v, input[c].dt)
      /\ Returned(c).Errors = <<>>
      /\ Returned(c).MissingSourceFields = <<>>

\* The dotted paths of the fields call c found no source field for, in the
\* order the traversal met them.
MissedPaths(c) ==
  LET misses == Events(c, {"miss"}) IN [k \in 1..Len(misses) |-> misses[k].path]

\* Entry i of the history of call c is a missing field, and entry j a later
\* resolution or write.
GoesOnAfterMiss(c, i, j) ==
  /\ i < j
  /\ log[c][i].ev = "miss"
  /\ log[c][j].ev \in {"found", "ignored", "miss", "write"}

\* C2: with PanicOnMissingField on, Map aborts at the first destination field
\* that has no source counterpart: no later field is resolved or written.
C2_AbortsAtFirstMissingField ==
  \A c \in Calls :
    m.PanicOnMissingField =>
      \A i \in 1..Len(log[c]), j \in 1..Len(log[c]) : ~GoesOnAfterMiss(c, i, j)

\* Every field of the destination record of call c has been resolved.
RootTraversed(c) ==
  Kind(input[c].dt) = "struct" =>
    \A k \in 1..NumField(input[c].dt) :
      \E n \in 1..Len(log[c]) :
        /\ log[c][n].ev \in {"found", "ignored", "miss"}
        /\ log[c][n].depth = 1
        /\ log[c][n].i = k

\* What the code does instead: with PanicOnMissingField on, Map never returns
\* normally once a field is missing, but the panic for missing fields is
\* raised by Map itself (mapper.go:55-59), after the traversal has come back
\* to it (every field of the destination record has been resolved), and its
\* message lists every missing path in traversal order.
MissingFieldPanicsAfterTraversal ==
  \A c \in Calls :
    m.PanicOnMissingField /\ Events(c, {"miss"}) # <<>> =>
      /\ status[c] # "returned"
      /\ status[c] = "panicked" /\ panic[c].kind = "missing" =>
           /\ RootTraversed(c)
           /\ stack[c] = <<>>
           /\ panic[c] = MissingError(MissedPaths(c))
           /\ Returned(c).MissingSourceFields = MissedPaths(c)

\* A call that panicked for missing fields after it had gone on to write a
\* field later than the missing one.
WroteAfterMissThenPanicked ==
  \E c \in Calls :
    /\ m.PanicOnMissingField
    /\ status[c] = "panicked" /\ panic[c].kind = "missing"
    /\ \E i \in 1..Len(log[c]), j \in 1..Len(log[c]) :
         GoesOnAfterMiss(c, i, j) /\ log[c][j].ev = "write"

RECURSIVE At(_, _, _)
\* The value at path p of a value v of type t: field indexes through records,
\* 1 through a pointer, element indexes through sequences. ok is FALSE when the
\* path leaves the value (a nil pointer, a shorter sequence).
At(t, v, p) ==
  IF p = <<>> THEN [ok |-> TRUE, t |-> t, v |-> v]
  ELSE IF Kind(t) = "struct" THEN At(Field(t, Head(p)).Type, v[Head(p)], Tail(p))
  ELSE IF Len(v) < Head(p) THEN [ok |-> FALSE, t |-> t, v |-> v]
  ELSE At(Elem(t), v[Head(p)], Tail(p))

\* The destination field a history entry e of call c is about still holds its
\* zero value (entries of synthetic elements have no field in the destination).
KeepsZero(c, e) ==
  LET at == At(input[c].dt, dest[c], Append(e.lp, e.i))
  IN  ~e.syn /\ at.ok => at.v = Zero(at.t)

\* Call c returned from a Mapper that does not panic on missing fields.
ReturnedTolerant(c) == ~m.PanicOnMissingField /\ status[c] = "returned"

\* C3: with PanicOnMissingField off, a destination field that has no source
\* counterpart and is not ignored keeps its zero value, and its dotted scope
\* path appears exactly once in MissingSourceFields.
C3_MissingPathExactlyOnce ==
  \A c \in Calls :
    ReturnedTolerant(c) =>
      \A n \in 1..Len(log[c]) :
        log[c][n].ev = "miss" =>
          /\ KeepsZero(c, log[c][n])
          /\ Count(log[c][n].path, Returned(c).MissingSourceFields) = 1

\* C3 (amended): with PanicOnMissingField off, a destination field that has no
\* source counterpart and is not ignored keeps its zero value, and
\* MissingSourceFields holds its dotted scope path (which carries no element
\* index) once for every time the traversal met the field: exactly once when no
\* enclosing field is a sequence, once per element of the enclosing sequences
\* otherwise.
C3_MissingPathPerVisit ==
  \A c \in Calls :
    ReturnedTolerant(c) =>
      /\ Returned(c).MissingSourceFields = MissedPaths(c)
      /\ \A n \in 1..Len(log[c]) :
           log[c][n].ev = "miss" =>
             /\ KeepsZero(c, log[c][n])
             /\ Count(log[c][n].path, Returned(c).MissingSourceFields) >= 1
             /\ ~log[c][n].inSeq =>
                  Count(log[c][n].path, Returned(c).MissingSourceFields) = 1

\* A call that returned with the path of a field of sequence elements recorded
\* once for each of two elements.
C3_Witness ==
  \E c \in Calls :
    /\ ReturnedTolerant(c)
    /\ \E n \in 1..Len(log[c]) :
         /\ log[c][n].ev = "miss" /\ log[c][n].inSeq /\ ~log[c][n].syn
         /\ KeepsZero(c, log[c][n])
         /\ Count(log[c][n].path, Returned(c).MissingSourceFields) = 2

\* The last name of a path of field names.
LastName(sn) == sn[Len(sn)]

\* Call c maps a record to a record, and field kd of the destination and field
\* ks of the source have the same scalar type.
SameScalarFields(c, kd, ks) ==
  /\ Kind(SourceRecord(c).t) = "struct" /\ Kind(input[c].dt) = "struct"
  /\ kd \in 1..NumField(input[c].dt)
  /\ ks \in 1..NumField(SourceRecord(c).t)
  /\ Field(input[c].dt, kd).Type = Field(SourceRecord(c).t, ks).Type
  /\ Kind(Field(input[c].dt, kd).Type) \notin {"struct", "ptr", "slice"}

\* Destination field kd of call c holds the value of source field ks.
PopulatedFrom(c, kd, ks) == dest[c][kd] = SourceRecord(c).v[ks]

\* The destination field named dn and the source field named sn of call c are
\* of one scalar type, and the first holds the value of the second.
RenamedValue(c, dn, sn) ==
  \A kd \in 1..NumField(input[c].dt), ks \in 1..NumField(SourceRecord(c).t) :
    /\ SameScalarFields(c, kd, ks)
    /\ fuzzy(m, TagOrName(m.DestTag, Field(input[c].dt, kd))) = fuzzy(m, dn)
    /\ formattedSourceFieldName(m, Field(SourceRecord(c).t, ks)) = fuzzy(m, sn)
    => PopulatedFrom(c, kd, ks)

\* C4: for an entry K -> V of the rename table, the destination field whose
\* normalized name is K is populated from the source field whose normalized
\* name is V.
C4_KeyNamesDestination ==
  \A c \in Calls :
    status[c] = "returned" /\ Kind(input[c].dt) = "struct" =>
      \A r \in m.FieldNameMaps :
        /\ RenamedValue(c, r.k, r.v)
        /\ \A n \in 1..Len(log[c]) :
             /\ log[c][n].ev = "found"
             /\ fuzzy(m, log[c][n].dn) = fuzzy(m, r.k)
             /\ directMatch(m, log[c][n].st, fuzzy(m, r.v)) # 0
             => fuzzy(m, LastName(log[c][n].sn)) = fuzzy(m, r.v)

\* The entry r is the only one of the rename table with its normalized value.
OnlyKeyFor(r) ==
  \A q \in m.FieldNameMaps : fuzzy(m, q.v) = fuzzy(m, r.v) => q = r

\* C4 (amended): the rename table maps source names to destination names. For
\* an entry K -> V, the destination field whose normalized name is V is looked
\* up under K: it is populated from the source field whose normalized name is
\* K, and from no field named V. When several entries share the value V, the
\* field is looked up under the key of one of them.
C4_ValueNamesDestination ==
  \A c \in Calls :
    status[c] = "returned" /\ Kind(input[c].dt) = "struct" =>
      /\ \A r \in m.FieldNameMaps : OnlyKeyFor(r) => RenamedValue(c, r.v, r.k)
      /\ \A n \in 1..Len(log[c]) :
           /\ log[c][n].ev = "found"
           /\ \E r \in m.FieldNameMaps : fuzzy(m, log[c][n].dn) = fuzzy(m, r.v)
           => \E r \in m.FieldNameMaps :
                /\ fuzzy(m, log[c][n].dn) = fuzzy(m, r.v)
                /\ fuzzy(m, LastName(log[c][n].sn)) = fuzzy(m, r.k)

\* A call that returned after a destination field named by the value of a
\* rename entry was populated from the differently named source field its key
\* names.
C4_Witness ==
  \E c \in Calls :
    /\ status[c] = "returned" /\ Kind(input[c].dt) = "struct"
    /\ \E r \in m.FieldNameMaps :
         /\ r.k # r.v
         /\ \E kd \in 1..NumField(input[c].dt), ks \in 1..NumField(SourceRecord(c).t) :
              /\ SameScalarFields(c, kd, ks)
              /\ Field(input[c].dt, kd).Name = r.v
              /\ Field(SourceRecord(c).t, ks).Name = r.k
              /\ PopulatedFrom(c, kd, ks)
              /\ dest[c][kd] # Zero(Field(input[c].dt, kd).Type)
         /\ \E n \in 1..Len(log[c]) :
              /\ log[c][n].ev = "found" /\ log[c][n].dn = r.v
              /\ LastName(log[c][n].sn) = r.k

\* Call c returned from a Mapper with both panic switches off.
ReturnedNonFatal(c) ==
  /\ ~m.PanicOnMissingField /\ ~m.PanicOnIncompatibleTypes
  /\ status[c] = "returned"

\* The failures call c met, in traversal order: missing fields, unsupported
\* type pairs and recovered panics.
Failures(c) == Events(c, {"miss", "err", "recovered"})

\* The index of the entry of Errors that reports the failure e: the entry for
\* the missing fields, or the entry added when e happened.
EntryOf(c, e) ==
  IF e.ev = "miss"
  THEN CHOOSE k \in 1..Len(Returned(c).Errors) : Returned(c).Errors[k].kind = "missing"
  ELSE e.at

\* C5: with both policies non-fatal, the entries of Errors appear in the order
\* the traversal met the corresponding failures, missing-field and
\* incompatible-type failures alike.
C5_ErrorsInTraversalOrder ==
  \A c \in Calls :
    ReturnedNonFatal(c) =>
      \A i \in 1..Len(Failures(c)), j \in 1..Len(Failures(c)) :
        i < j => EntryOf(c, Failures(c)[i]) <= EntryOf(c, Failures(c)[j])

\* The kind of the entry of Errors a type failure adds.
KindOf(e) == IF e.ev = "err" THEN "unsupported" ELSE "field"

\* C5 (amended): with both policies non-fatal, Errors holds one entry per
\* incompatible-type failure, in the order the traversal met them, followed,
\* when any field was missing, by a single last entry that lists every missing
\* path in traversal order, wherever in the traversal the fields were missed.
C5_TypeErrorsThenMissingEntry ==
  \A c \in Calls :
    ReturnedNonFatal(c) =>
      LET errs == Events(c, {"err", "recovered"})
          errors == Returned(c).Errors
      IN  /\ Len(errors) = Len(errs) + (IF MissedPaths(c) # <<>> THEN 1 ELSE 0)
          /\ \A k \in 1..Len(errs) :
               errs[k].at = k /\ errors[k].kind = KindOf(errs[k])
          /\ MissedPaths(c) # <<>> =>
               errors[Len(errors)] = MissingError(MissedPaths(c))

\* A call that returned after it met a missing field and then an incompatible
\* type: the entry for the missing field comes after the one for the type.
C5_Witness ==
  \E c \in Calls :
    /\ ReturnedNonFatal(c)
    /\ \E i \in 1..Len(Failures(c)), j \in 1..Len(Failures(c)) :
         /\ i < j
         /\ Failures(c)[i].ev = "miss" /\ Failures(c)[j].ev = "err"
         /\ EntryOf(c, Failures(c)[j]) < EntryOf(c, Failures(c)[i])

RECURSIVE CannotMap(_, _)
\* The pair of types cannot be mapped: mapValues on values of the source type
\* that hold no nil pointer and no empty sequence reports a failure.
CannotMap(st, dt) ==
  IF Kind(dt) = "ptr" THEN CannotMap(st, Elem(dt))
  ELSE IF Kind(dt) = "struct"
  THEN LET s == IF Kind(st) = "ptr" THEN Elem(st) ELSE st
       IN  IF isTime(dt) /\ isTime(s) THEN FALSE
           ELSE \E k \in 1..NumField(dt) :
                  \A o \in findSourceField(m, EmptyResult, s, Zero(s), Field(dt, k)) :
                    \/ o.why \in {"missing", "panic"}
                    \/ o.ok /\ CannotMap(FieldTypeAt(s, o.sp), Field(dt, k).Type)
  ELSE IF st = dt \/ Coercible(st, dt) THEN FALSE
  ELSE IF Kind(dt) = "slice" /\ Kind(st) = "slice" THEN CannotMap(Elem(st), Elem(dt))
  ELSE TRUE

\* Field k of the destination record of call c is a sequence, the source field
\* of the same name is an empty sequence, and their element types cannot be
\* mapped.
EmptyIncompatible(c, k) ==
  /\ PlainMapper /\ input[c].destIsPtr
  /\ Kind(SourceRecord(c).t) = "struct" /\ Kind(input[c].dt) = "struct"
  /\ k \in 1..NumField(input[c].dt)
  /\ LET df == Field(input[c].dt, k)
         j == FieldNamed(SourceRecord(c).t, df.Name)
     IN  /\ j # 0
         /\ Kind(df.Type) = "slice"
         /\ Kind(Field(SourceRecord(c).t, j).Type) = "slice"
         /\ Len(SourceRecord(c).v[j]) = 0
         /\ CannotMap(Elem(Field(SourceRecord(c).t, j).Type), Elem(df.Type))

\* The indexes of the fields of the destination record of call c.
RootFields(c) ==
  IF Kind(input[c].dt) = "struct" THEN 1..NumField(input[c].dt) ELSE {}

\* C6: when a source sequence is empty and its element type cannot be mapped
\* to the destination's element type, the incompatibility is still reported (a
\* panic under a fatal policy, an entry of Errors otherwise), and the
\* destination sequence has length zero.
C6_EmptySequenceStillReports ==
  \A c \in Calls :
    \A k \in RootFields(c) :
      Done(c) /\ EmptyIncompatible(c, k) =>
        /\ Len(dest[c][k]) = 0
        /\ \/ status[c] = "panicked"
           \/ Returned(c).Errors # <<>>

\* The part of C6 the code satisfies: the destination sequence has length
\* zero, and the incompatibility is reported unless the source elements are
\* pointers.
EmptySequenceOfValuesStillReports ==
  \A c \in Calls :
    \A k \in RootFields(c) :
      Done(c) /\ EmptyIncompatible(c, k) =>
        /\ Len(dest[c][k]) = 0
        /\ Kind(Elem(Field(SourceRecord(c).t,
                           FieldNamed(SourceRecord(c).t, Field(input[c].dt, k).Name)).Type))
             # "ptr" =>
             \/ status[c] = "panicked"
             \/ Returned(c).Errors # <<>>

\* Sequences that are not empty report the incompatibility of their element
\* types: what CannotMap stands for.
NonEmptySequenceReports ==
  \A c \in Calls :
    /\ Done(c) /\ PlainMapper /\ input[c].destIsPtr
    /\ Kind(SourceRecord(c).t) = "struct" /\ Kind(input[c].dt) = "struct"
    => \A k \in RootFields(c) :
         LET df == Field(input[c].dt, k)
             j == FieldNamed(SourceRecord(c).t, df.Name)
         IN  /\ j # 0
             /\ Kind(df.Type) = "slice"
             /\ Kind(Field(SourceRecord(c).t, j).Type) = "slice"
             /\ Len(SourceRecord(c).v[j]) > 0
             /\ \A n \in 1..Len(SourceRecord(c).v[j]) :
                  ~valueIsNil(Elem(Field(SourceRecord(c).t, j).Type), SourceRecord(c).v[j][n])
             /\ CannotMap(Elem(Field(SourceRecord(c).t, j).Type), Elem(df.Type))
             => \/ status[c] = "panicked"
                \/ Returned(c).Errors # <<>>

\* The source record sv of type st with every nil pointer to a record replaced
\* by a pointer to the zero record, where the destination field of the same
\* name is a record and no pointer.
FillNil(st, sv, dt) ==
  [j \in 1..NumField(st) |->
     LET ft == Field(st, j).Type
         k == FieldNamed(dt, Field(st, j).Name)
     IN  IF /\ Kind(ft) = "ptr" /\ Kind(Elem(ft)) = "struct" /\ Len(sv[j]) = 0
            /\ k # 0 /\ Kind(Field(dt, k).Type) = "struct"
         THEN <<Zero(Elem(ft))>>
         ELSE sv[j]]

\* Calls a and b map sources of one type to destinations of one type; the
\* source of a holds a nil pointer where the destination holds a record, and
\* the source of b is the source of a with a pointer to the zero record
\* instead.
NilFilled(a, b) ==
  /\ input[a].st = input[b].st /\ input[a].dt = input[b].dt
  /\ input[a].destIsPtr /\ input[b].destIsPtr
  /\ Kind(SourceRecord(a).t) = "struct" /\ Kind(input[a].dt) = "struct"
  /\ SourceRecord(b).v = FillNil(SourceRecord(a).t, SourceRecord(a).v, input[a].dt)
  /\ SourceRecord(b).v # SourceRecord(a).v

\* C7: a nil pointer source field mapped to a non-pointer record destination
\* field behaves exactly like a pointer to the zero-valued source record: the
\* two calls end with the same destination, the same Errors and the same
\* MissingSourceFields.
C7_NilPointerLikeZeroRecord ==
  \A a \in Calls, b \in Calls :
    Done(a) /\ Done(b) /\ NilFilled(a, b) =>
      /\ status[a] = status[b]
      /\ panic[a] = panic[b]
      /\ dest[a] = dest[b]
      /\ Returned(a).Errors = Returned(b).Errors
      /\ Returned(a).MissingSourceFields = Returned(b).MissingSourceFields

\* Two finished calls, one on a nil pointer and one on a pointer to the zero
\* record, whose destination record misses a field in both.
C7_Witness ==
  \E a \in Calls, b \in Calls :
    /\ Done(a) /\ Done(b) /\ NilFilled(a, b)
    /\ Events(a, {"miss"}) # <<>> /\ Events(b, {"miss"}) # <<>>
    /\ Returned(a).MissingSourceFields = Returned(b).MissingSourceFields

\* C8: at every traversal node where source and destination have exactly the
\* same type and no custom mapper handles it, the source value is copied whole
\* into the destination before any record-field iteration, and nothing is
\* added to Errors or MissingSourceFields.
C8_IdenticalTypeCopiedWhole ==
  \A c \in Calls :
    /\ status[c] = "returned"
    /\ input[c].st = input[c].dt /\ Kind(input[c].dt) # "ptr"
    /\ FirstHandler(m, input[c].st, input[c].dt) = 0
    => /\ dest[c] = input[c].sv
       /\ Returned(c).Errors = <<>>
       /\ Returned(c).MissingSourceFields = <<>>

\* Call c is about to run mapValues on a source and a destination of one type
\* that is no pointer and that no custom mapper handles.
IdenticalNode(c) ==
  /\ status[c] = "running"
  /\ stack[c] # <<>>
  /\ Top(c).op = "mapValues"
  /\ Top(c).st = Top(c).dt /\ Kind(Top(c).dt) # "ptr"
  /\ FirstHandler(m, Top(c).st, Top(c).dt) = 0

\* The step of call c copies the source of the top invocation whole.
CopiesWhole(c) ==
  LET mem == Write([d |-> dest[c], s |-> stack[c]], Top(c).loc, Top(c).sv)
  IN  /\ dest'[c] = mem.d
      /\ stack'[c] = Pop(mem.s)

\* The step of call c starts the field by field iteration of the top
\* invocation and writes nothing.
IteratesFields(c) ==
  /\ dest'[c] = dest[c]
  /\ stack'[c] = SetTop(stack[c], [Top(c) EXCEPT !.op = "struct", !.i = 1, !.pc = "push"])

\* C8 (amended): at a traversal node where source and destination have exactly
\* the same type, no custom mapper handles it and the destination is neither a
\* pointer nor a record, the source value is copied whole and nothing is added
\* to Errors or MissingSourceFields. A record (other than time.Time) is
\* iterated field by field even when the source has the same type: the record
\* loop comes before the identical-type copy, so the ignore list and the rename
\* table apply to its fields.
C8_IdenticalScalarCopiedRecordIterated ==
  [][\A c \in Calls :
       IdenticalNode(c) /\ stack'[c] # stack[c] =>
         /\ result' = result
         /\ status'[c] = "running"
         /\ IF Kind(Top(c).dt) = "struct" /\ ~isTime(Top(c).dt)
            THEN IteratesFields(c)
            ELSE CopiesWhole(c)]_vars

\* A call that returned from a record of the destination's own type with an
\* ignored field left at zero, after the identical-type copy of another field.
C8_Witness ==
  \E c \in Calls :
    /\ status[c] = "returned"
    /\ input[c].st = input[c].dt /\ Kind(input[c].dt) = "struct"
    /\ m.IgnoreDestFields # <<>>
    /\ dest[c] # input[c].sv
    /\ \E n \in 1..Len(log[c]) : log[c][n].ev = "ignored"
    /\ \E n \in 1..Len(log[c]) :
         /\ log[c][n].ev = "write"
         /\ log[c][n].st = log[c][n].dt
         /\ Kind(log[c][n].dt) \notin {"struct", "ptr"}

RECURSIVE PromotedNames(_)
\* The formatted names of the fields of the record type st and of the
\* anonymous embedded records in it, at any depth.
PromotedNames(st) ==
  {formattedSourceFieldName(m, Field(st, k)) : k \in 1..NumField(st)}
  \cup UNION {PromotedNames(Field(st, k).Type) :
                k \in {j \in 1..NumField(st) :
                         Field(st, j).Anonymous /\ Kind(Field(st, j).Type) = "struct"}}

RECURSIVE EmbeddedPath(_, _)
\* sn is a path of field names from the record type st through anonymous
\* embedded records to a field.
EmbeddedPath(st, sn) ==
  LET k == FieldNamed(st, Head(sn))
  IN  /\ k # 0
      /\ Len(sn) > 1 =>
           /\ Field(st, k).Anonymous /\ Kind(Field(st, k).Type) = "struct"
           /\ EmbeddedPath(Field(st, k).Type, Tail(sn))

RECURSIVE ByNames(_, _, _)
\* The field of the value v of record type t at a path of field names.
ByNames(t, v, sn) ==
  IF sn = <<>> THEN [t |-> t, v |-> v]
  ELSE LET k == FieldNamed(t, Head(sn))
       IN  ByNames(Field(t, k).Type, v[k], Tail(sn))

\* The number of anonymous embedded records of the record type st.
Embedded(st) ==
  Cardinality({k \in 1..NumField(st) :
                 Field(st, k).Anonymous /\ Kind(Field(st, k).Type) = "struct"})

\* The names a history entry's destination field can be looked up under.
LookupNames(e) == formattedDestFieldName(m, Field(e.dt, e.i))

\* The history entry e of call c is a field of the destination record of Map
\* resolved to a source field of the same scalar type.
RootScalar(c, e) ==
  /\ e.ev = "found" /\ e.lp = <<>>
  /\ Kind(input[c].dt) = "struct" /\ e.st = SourceRecord(c).t
  /\ ByNames(e.st, SourceRecord(c).v, e.sn).t = Field(e.dt, e.i).Type
  /\ Kind(Field(e.dt, e.i).Type) \notin {"struct", "ptr", "slice"}
  /\ FirstHandler(m, Field(e.dt, e.i).Type, Field(e.dt, e.i).Type) = 0

\* C9: a destination field whose name appears only inside an anonymous embedded
\* source record (at any depth) is resolved to that embedded field; a field
\* found in no embedded record either adds exactly one entry to
\* MissingSourceFields, however many embedded records were probed.
C9_EmbeddedFieldsResolved ==
  \A c \in Calls :
    /\ Len(Returned(c).MissingSourceFields) = Len(Events(c, {"miss"}))
    /\ \A n \in 1..Len(log[c]) :
         LET e == log[c][n] IN
           /\ e.ev = "found" =>
                /\ EmbeddedPath(e.st, e.sn)
                /\ formattedSourceFieldName(m, Field(ByNames(e.st, Zero(e.st),
                                                           SubSeq(e.sn, 1, Len(e.sn) - 1)).t,
                                                   FieldNamed(ByNames(e.st, Zero(e.st),
                                                                      SubSeq(e.sn, 1, Len(e.sn) - 1)).t,
                                                              LastName(e.sn))))
                     \in LookupNames(e)
                /\ Len(e.sn) > 1 =>
                     \E name \in LookupNames(e) : directMatch(m, e.st, name) = 0
           /\ e.ev = "miss" => \E name \in LookupNames(e) : name \notin PromotedNames(e.st)
           /\ e.ev \in {"found", "miss"} /\ LookupNames(e) \subseteq PromotedNames(e.st) =>
                e.ev = "found"
           /\ status[c] = "returned" /\ RootScalar(c, e) =>
                dest[c][e.i] = ByNames(e.st, SourceRecord(c).v, e.sn).v

\* A call that returned with one field taken from a record embedded in an
\* embedded record, and one field that several probed embedded records did not
\* have, recorded once.
C9_Witness ==
  \E c \in Calls :
    /\ status[c] = "returned"
    /\ \E n \in 1..Len(log[c]) :
         /\ RootScalar(c, log[c][n]) /\ Len(log[c][n].sn) = 3
         /\ dest[c][log[c][n].i] = ByNames(log[c][n].st, SourceRecord(c).v, log[c][n].sn).v
         /\ dest[c][log[c][n].i] # Zero(Field(log[c][n].dt, log[c][n].i).Type)
    /\ \E n \in 1..Len(log[c]) :
         /\ log[c][n].ev = "miss" /\ Embedded(log[c][n].st) >= 2
         /\ Count(log[c][n].path, Returned(c).MissingSourceFields) = 1

\* The panics of the scope checks of the struct loop (mapper.go:149-154).
ScopePanics == {"Scope length is unexpectedly zero", "scope stack is too large"}

\* C10: when several calls of Map run concurrently on one Mapper, each call's
\* traversal uses only its own scope: the scope of its Result is at every
\* moment the path of the fields the call itself is mapping, no scope check
\* panics, and every missing-field path a call records is the path of a field
\* it missed itself, as when the call runs alone.
C10_ScopeIsPerCall ==
  \A c \in Calls :
    /\ status[c] = "running" => Returned(c).scope = FieldPath(stack[c])
    /\ status[c] # "ready" => Returned(c).MissingSourceFields = MissedPaths(c)
    /\ panic[c].kind \notin ScopePanics

\* Two calls in flight at once, each inside a field of its own.
C10_Witness ==
  /\ \A c \in Calls : status[c] = "running" /\ Returned(c).scope # <<>>
  /\ Returned(1).scope # Returned(2).scope
  /\ \E c \in Calls : Returned(c).MissingSourceFields # <<>>

\* Two invocations on the stack are the same invocation: the same step of
\* mapValues on the same source type, source value and destination type.
SameInvocation(f, g) ==
  /\ f.op = g.op /\ f.pc = g.pc /\ f.i = g.i
  /\ f.st = g.st /\ f.dt = g.dt
  /\ f.sv = g.sv

\* An invocation of call c is nested within the same invocation. What an
\* invocation calls depends on its source, its destination type and the Mapper
\* alone, so such a call chain repeats itself without end.
Recurs(c) ==
  \E i \in 1..Len(stack[c]), j \in 1..Len(stack[c]) :
    i < j /\ SameInvocation(stack[c][i], stack[c][j])

\* C11: every call of Map on a finite source value completes or aborts after
\* finitely many traversal steps, also when source and destination are
\* different record types that refer to themselves through a sequence field
\* and that sequence is empty: no invocation is nested within itself, and the
\* call never runs the stack full.
C11_MapCompletesOrAborts ==
  \A c \in Calls : status[c] # "overflow" /\ ~Recurs(c)

\* The source and destination of call c are different record types that refer
\* to themselves through a sequence field.
SelfReferential(c) ==
  /\ SourceRecord(c).t = N("SrcNode")
  /\ input[c].dt = N("DstNode")

\* Every other call of Map completes or aborts: the traversal never nests an
\* invocation within itself, never runs the stack full, and stops only when
\* Map has returned or panicked.
OtherCallsCompleteOrAbort ==
  \A c \in Calls :
    ~SelfReferential(c) /\ status[c] # "unused" =>
      /\ status[c] # "overflow" /\ ~Recurs(c)
      /\ Done(c) \/ ENABLED Next

\* Calls a and b were given the same source and the same destination.
SameArguments(a, b) ==
  /\ input[a].st = input[b].st /\ input[a].dt = input[b].dt
  /\ input[a].destIsPtr = input[b].destIsPtr
  /\ input[a].sv = input[b].sv

\* Calls a and b ended the same way, with the same destination and Result.
SameOutcome(a, b) ==
  /\ status[a] = status[b]
  /\ panic[a] = panic[b]
  /\ dest[a] = dest[b]
  /\ Returned(a).Errors = Returned(b).Errors
  /\ Returned(a).MissingSourceFields = Returned(b).MissingSourceFields

\* C12: Map is deterministic: two runs with the same Mapper, the same source
\* value and the same initial destination produce the same destination and the
\* same Result, also when FieldNameMaps holds several keys whose normalized
\* values are equal.
C12_MapIsDeterministic ==
  \A a \in Calls, b \in Calls :
    Done(a) /\ Done(b) /\ SameArguments(a, b) => SameOutcome(a, b)

\* No two entries of the rename table have the same normalized value.
KeysDistinguished == \A r \in m.FieldNameMaps : OnlyKeyFor(r)

\* Map is deterministic when no two entries of the rename table share a
\* normalized value (the part of C12 the code satisfies).
DeterministicWithDistinguishedKeys ==
  \A a \in Calls, b \in Calls :
    KeysDistinguished /\ Done(a) /\ Done(b) /\ SameArguments(a, b) => SameOutcome(a, b)

====
